---------------------------- MODULE Spec2Model ----------------------------
(***************************************************************************)
(* A model of the two request pipelines of the repository:                 *)
(*   - handler.py: natural-language question -> generated SQL -> safety    *)
(*     validation -> Athena execution -> bounded polling -> results;       *)
(*   - self_healing_pipeline.py: Glue failure event -> evidence -> agent   *)
(*     invocation (streamed) -> metrics -> escalation -> summary.          *)
(*                                                                         *)
(* Texts the code inspects character by character (the generated query,    *)
(* the agent's narrative) are sequences of one-character strings.  Texts   *)
(* the code only formats or compares (states, identifiers, messages) are   *)
(* TLA+ strings; an f-string is the \o concatenation of its parts.         *)
(***************************************************************************)
EXTENDS Integers, Sequences, FiniteSets, TLC

VARIABLES
    \* validate_sql called on its own: its argument and its return value
    sql_in, verdict,
    \* execute_nl_query: its position, arguments and locals
    pc, question, database, schema_context, gen_prompt, sql_query,
    safety_check, query_id, result,
    \* poll_query: its argument, loop counter and locals
    timeout_seconds, poll_i, state, stats,
    \* what the run has asked of the services: the texts submitted to Athena,
    \* the number of generation, status and result requests, the seconds slept
    submitted, calls, slept,
    \* whether a status request of this run has observed a terminal state
    sawTerminal,
    \* the first terminal state a status request of this run has observed,
    \* with the number of requests and the seconds slept by then
    firstTerminal,
    \* whether glue.get_tables raised in this run
    catalog_failed,
    \* fetch_results: the rows athena.get_query_results returned
    retrieved,
    \* the self-healing lambda_handler: the locals and position of each
    \* invocation, with what it has sent to the metrics and notification sinks
    inv,
    \* the services of this run: the longest response stream the agent sends,
    \* and whether the log and run-history sources answer in every way or
    \* only with an empty answer
    env

\* Python's None, where a record is expected
None == [none |-> TRUE]

(***************************************************************************)
(* Python str operations, on sequences of characters.                      *)
(***************************************************************************)
LowerLetters == <<"a","b","c","d","e","f","g","h","i","j","k","l","m","n","o","p","q","r","s","t","u","v","w","x","y","z">>
UpperLetters == <<"A","B","C","D","E","F","G","H","I","J","K","L","M","N","O","P","Q","R","S","T","U","V","W","X","Y","Z">>

\* str.upper() of one character
UpperChar(c) ==
    IF \E i \in 1..Len(LowerLetters) : LowerLetters[i] = c
    THEN UpperLetters[CHOOSE i \in 1..Len(LowerLetters) : LowerLetters[i] = c]
    ELSE c

\* str.upper()
Upper(s) == [i \in 1..Len(s) |-> UpperChar(s[i])]

\* the characters str.strip() removes
Whitespace == {" ", "\n", "\t"}

\* str.strip(): drop the leading and the trailing run of whitespace
Strip(s) ==
    LET keep == {i \in 1..Len(s) : s[i] \notin Whitespace}
    IN  IF keep = {} THEN <<>>
        ELSE LET lo == CHOOSE i \in keep : \A j \in keep : i <= j
                 hi == CHOOSE i \in keep : \A j \in keep : j <= i
             IN  SubSeq(s, lo, hi)

\* sub in s
Contains(sub, s) ==
    \E i \in 1..(Len(s) - Len(sub) + 1) : SubSeq(s, i, i + Len(sub) - 1) = sub

\* s.startswith(prefix)
StartsWith(s, prefix) ==
    /\ Len(prefix) <= Len(s)
    /\ SubSeq(s, 1, Len(prefix)) = prefix

RECURSIVE Concat(_)
\* "".join(parts)
Concat(parts) ==
    IF parts = <<>> THEN <<>> ELSE Head(parts) \o Concat(Tail(parts))

\* every sequence over S of length at most n
SeqsUpTo(S, n) == UNION {[1..k -> S] : k \in 0..n}

(***************************************************************************)
(* handler.py: validate_sql                                                *)
(***************************************************************************)
\* BLOCKED_KEYWORDS, each with the text the reason is formatted with
BLOCKED_KEYWORDS ==
    << [name |-> "DROP",     chars |-> <<"D","R","O","P">>],
       [name |-> "DELETE",   chars |-> <<"D","E","L","E","T","E">>],
       [name |-> "INSERT",   chars |-> <<"I","N","S","E","R","T">>],
       [name |-> "UPDATE",   chars |-> <<"U","P","D","A","T","E">>],
       [name |-> "ALTER",    chars |-> <<"A","L","T","E","R">>],
       [name |-> "TRUNCATE", chars |-> <<"T","R","U","N","C","A","T","E">>],
       [name |-> "CREATE",   chars |-> <<"C","R","E","A","T","E">> ] >>

KwSelect == <<"S","E","L","E","C","T">>
KwWith == <<"W","I","T","H">>

\* validate_sql with `kw in sql` in place of `kw in upper`
validate_sql_no_upper(sql) ==
    LET upper == Upper(sql)
        hits  == {k \in 1..Len(BLOCKED_KEYWORDS) : Contains(BLOCKED_KEYWORDS[k].chars, sql)}
    IN  IF hits # {}
        THEN [safe |-> FALSE,
              reason |-> "Blocked keyword detected: "
                         \o BLOCKED_KEYWORDS[CHOOSE k \in hits : \A j \in hits : k <= j].name]
        ELSE IF ~StartsWith(Strip(upper), KwSelect) /\ ~StartsWith(Strip(upper), KwWith)
        THEN [safe |-> FALSE, reason |-> "Only SELECT / WITH queries are permitted"]
        ELSE [safe |-> TRUE]

\* validate_sql with `"SELECT" in upper` in place of startswith
validate_sql_contains(sql) ==
    LET upper == Upper(sql)
        hits  == {k \in 1..Len(BLOCKED_KEYWORDS) : Contains(BLOCKED_KEYWORDS[k].chars, upper)}
    IN  IF hits # {}
        THEN [safe |-> FALSE,
              reason |-> "Blocked keyword detected: "
                         \o BLOCKED_KEYWORDS[CHOOSE k \in hits : \A j \in hits : k <= j].name]
        ELSE IF ~Contains(KwSelect, Strip(upper)) /\ ~Contains(KwWith, Strip(upper))
        THEN [safe |-> FALSE, reason |-> "Only SELECT / WITH queries are permitted"]
        ELSE [safe |-> TRUE]

\* validate_sql that permits a leading SELECT only
validate_sql_select_only(sql) ==
    LET upper == Upper(sql)
        hits  == {k \in 1..Len(BLOCKED_KEYWORDS) : Contains(BLOCKED_KEYWORDS[k].chars, upper)}
    IN  IF hits # {}
        THEN [safe |-> FALSE,
              reason |-> "Blocked keyword detected: "
                         \o BLOCKED_KEYWORDS[CHOOSE k \in hits : \A j \in hits : k <= j].name]
        ELSE IF ~StartsWith(Strip(upper), KwSelect)
        THEN [safe |-> FALSE, reason |-> "Only SELECT / WITH queries are permitted"]
        ELSE [safe |-> TRUE]

\* validate_sql: the first blocked keyword found in the uppercased text
\* rejects; then a text whose uppercased, stripped form starts with neither
\* SELECT nor WITH rejects; anything else is safe (a dict with no reason).
validate_sql(sql) ==
    LET upper == Upper(sql)
        hits  == {k \in 1..Len(BLOCKED_KEYWORDS) : Contains(BLOCKED_KEYWORDS[k].chars, upper)}
    IN  IF hits # {}
        THEN [safe |-> FALSE,
              reason |-> "Blocked keyword detected: "
                         \o BLOCKED_KEYWORDS[CHOOSE k \in hits : \A j \in hits : k <= j].name]
        ELSE IF ~StartsWith(Strip(upper), KwSelect) /\ ~StartsWith(Strip(upper), KwWith)
        THEN [safe |-> FALSE, reason |-> "Only SELECT / WITH queries are permitted"]
        ELSE [safe |-> TRUE]

(***************************************************************************)
(* Query texts: concatenations of a few fragments, so that keywords occur  *)
(* whole, in either case, split over fragments, inside identifiers, after  *)
(* a leading SELECT and behind leading whitespace.                         *)
(***************************************************************************)
MaxFrags == 3

Fragments ==
    { <<"S","E","L","E","C","T">>, <<"s","e","l","e","c","t">>, <<"W","i","t","h">>,
      <<" ">>, <<"\n">>, <<"1">>, <<";">>,
      <<"E","X","P","L","A","I","N">>,
      <<"D","R">>, <<"O","P">>,
      <<"c","r","e","a","t","e","d","_","a","t">>,
      <<"U","p","d","a","t","e">>,
      <<"D","E","L","E","T","E">>, <<"i","n","s","e","r","t">>,
      <<"A","L","T","E","R">>, <<"t","r","u","n","c","a","t","e">> }

\* the texts of at most n fragments
Texts(n) == {Concat(p) : p \in SeqsUpTo(Fragments, n)}

vvars == <<sql_in, verdict>>
qvars == <<pc, question, database, schema_context, gen_prompt, sql_query,
           safety_check, query_id, result, timeout_seconds, poll_i, state,
           stats, submitted, calls, slept, sawTerminal, firstTerminal,
           catalog_failed, retrieved>>
hvars == <<inv, env>>
vars == <<vvars, qvars, hvars>>

\* dict with no key
EmptyDict == [k \in {} |-> 0]

(***************************************************************************)
(* handler.py: get_catalog_schema                                          *)
(***************************************************************************)
DEFAULT_DATABASE == "data_warehouse"
Databases == {DEFAULT_DATABASE, "sales_db"}
Questions == {"total revenue by region"}

\* tables[:10]
TABLE_CAP == 10
MaxExtraTables == 1

\* a table as the catalog lists it; one in three has no StorageDescriptor
CatalogTable(i) ==
    IF i % 3 = 0
    THEN [Name |-> "t" \o ToString(i), Columns |-> <<>>]
    ELSE [Name |-> "t" \o ToString(i),
          Columns |-> <<[Name |-> "c", Type |-> [Name |-> "bigint"]]>>]

\* a table whose column type is not the mapping the code indexes
MalformedTable ==
    [Name |-> "bad", Columns |-> <<[Name |-> "c", Type |-> [str |-> "bigint"]]>>]

\* what glue.get_tables may do: raise, or answer with a table list
CatalogResponses ==
    {[raises |-> TRUE, TableList |-> <<>>]}
    \cup {[raises |-> FALSE, TableList |-> [i \in 1..n |-> CatalogTable(i)]] :
            n \in {0, 1, TABLE_CAP, TABLE_CAP + MaxExtraTables}}
    \cup {[raises |-> FALSE, TableList |-> <<CatalogTable(1), MalformedTable>>]}

RECURSIVE JoinComma(_)
\* ", ".join(parts)
JoinComma(parts) ==
    IF parts = <<>> THEN ""
    ELSE IF Len(parts) = 1 THEN parts[1]
    ELSE parts[1] \o ", " \o JoinComma(Tail(parts))

\* the line of one table: f"  TABLE {table['Name']}: {cols}"
SchemaLine(table) ==
    "  TABLE " \o table.Name \o ": "
    \o JoinComma([j \in 1..Len(table.Columns) |->
                    table.Columns[j].Name \o " (" \o table.Columns[j].Type.Name \o ")"])

\* the sentinel of line 98 (its dash written in ASCII)
SchemaUnavailable == <<"Schema unavailable - generate best-effort SQL">>
NoTablesFound == <<"No tables found in catalog">>

\* get_catalog_schema: the lines of the first TABLE_CAP tables (the text is
\* their "\n".join), "No tables found in catalog" for none, and the
\* sentinel when the fetch or the formatting raises
get_catalog_schema(resp) ==
    IF resp.raises THEN SchemaUnavailable
    ELSE LET tables == SubSeq(resp.TableList, 1,
                              IF Len(resp.TableList) < TABLE_CAP
                              THEN Len(resp.TableList) ELSE TABLE_CAP)
         IN  IF \E i \in 1..Len(tables) : \E j \in 1..Len(tables[i].Columns) :
                    "Name" \notin DOMAIN tables[i].Columns[j].Type
             THEN SchemaUnavailable
             ELSE IF tables = <<>> THEN NoTablesFound
             ELSE [i \in 1..Len(tables) |-> SchemaLine(tables[i])]

(***************************************************************************)
(* handler.py: generate_sql                                                *)
(***************************************************************************)
MaxGenFrags == 2

GenFragments ==
    { <<"S","E","L","E","C","T">>, <<"W","i","t","h">>, <<" ">>, <<"1">>,
      <<"E","X","P","L","A","I","N">>, <<"D","R">>, <<"O","P">>,
      <<"U","p","d","a","t","e">> }

\* what bedrock.invoke_model may do: raise, answer with no content segment,
\* or answer with a first text segment
GenerationResponses ==
    {[raises |-> TRUE, content |-> <<>>], [raises |-> FALSE, content |-> <<>>]}
    \cup {[raises |-> FALSE, content |-> <<Concat(p)>>] :
            p \in SeqsUpTo(GenFragments, MaxGenFrags)}

\* the prompt: the template with database, schema and question filled in
generate_prompt(q, db, ctx) == [database |-> db, schema |-> ctx, question |-> q]

(***************************************************************************)
(* handler.py: run_athena_query, poll_query, fetch_results                 *)
(***************************************************************************)
\* what athena.start_query_execution may do: raise, or return an id
SubmitResponses == {[raises |-> TRUE, id |-> ""], [raises |-> FALSE, id |-> "qe-1"]}

\* poll_query's default timeout_seconds, and the seconds of one sleep
DEFAULT_TIMEOUT == 60
POLL_INTERVAL == 2

TerminalStates == {"SUCCEEDED", "FAILED", "CANCELLED"}
ServiceStates == TerminalStates \cup {"QUEUED", "RUNNING"}

\* execution["Statistics"], when the service sends it
StatisticsChoices ==
    { [DataScannedInBytes |-> 65536, TotalExecutionTimeInMillis |-> 1200],
      [TotalExecutionTimeInMillis |-> 5] }

\* what athena.get_query_execution may answer: a state, with or without
\* Statistics (none: the key is absent)
StatusResponses ==
    [State : ServiceStates, Statistics : StatisticsChoices \cup {EmptyDict}]

\* len(range(n))
RangeLen(n) == IF n > 0 THEN n ELSE 0

\* a cell: <<>> when it has no VarCharValue, <<v>> when it has
CellText(c) == IF c = <<>> THEN "" ELSE c[1]

\* what athena.get_query_results may answer (its ["ResultSet"]["Rows"],
\* each row its "Data"): nothing, a header alone, a header and data rows,
\* cells without a value.  Athena answers with one cell per column in
\* every row, the header included.
ResultSets ==
    { <<>>,
      << <<<<"region">>, <<"revenue">>>> >>,
      << <<<<"region">>, <<"revenue">>>>, <<<<"EU">>, <<"10">>>>, <<<<"US">>, <<>>>> >>,
      << <<<<"n">>>>, <<<<"1">>>> >> }

MaxRows == 3
MaxCols == 2

\* the cells of the result sets below: with a VarCharValue or without
Cells == { <<>>, <<"a">> }

RECURSIVE Tuples(_, _)
\* the lists of n elements of S
Tuples(S, n) ==
    IF n = 0 THEN {<<>>}
    ELSE {Append(t, x) : t \in Tuples(S, n - 1), x \in S}

\* every result set of at most n rows (the header row counted), each of the
\* same w <= m cells
RectResultSets(n, m) ==
    UNION { Tuples(Tuples(Cells, w), r) : r \in 0..n, w \in 1..m }

\* round(numer / denom, 3) in thousandths, for an exact binary quotient:
\* to nearest, ties to even
RoundMilli(numer, denom) ==
    LET scaled == numer * 1000
        q == scaled \div denom
        r == scaled % denom
    IN  IF 2 * r < denom THEN q
        ELSE IF 2 * r > denom THEN q + 1
        ELSE IF q % 2 = 0 THEN q ELSE q + 1

DictGet(d, k, default) == IF k \in DOMAIN d THEN d[k] ELSE default

\* fetch_results that counts the header row among the rows
fetch_results_counts_header(rows, sql, st) ==
    IF rows = <<>>
    THEN [sql_generated |-> sql, columns |-> <<>>, rows |-> <<>>, row_count |-> 0]
    ELSE LET headers == [j \in 1..Len(rows[1]) |-> CellText(rows[1][j])]
             data == [i \in 1..(Len(rows) - 1) |->
                        [j \in 1..Len(rows[i + 1]) |-> CellText(rows[i + 1][j])]]
         IN  [sql_generated |-> sql,
              columns |-> headers,
              rows |-> data,
              row_count |-> Len(rows),
              data_scanned_mb |->
                  RoundMilli(DictGet(st, "DataScannedInBytes", 0), 1024 * 1024),
              execution_time_ms |-> DictGet(st, "TotalExecutionTimeInMillis", 0)]

\* fetch_results, given the rows retrieved; data_scanned_mb in thousandths
fetch_results(rows, sql, st) ==
    IF rows = <<>>
    THEN [sql_generated |-> sql, columns |-> <<>>, rows |-> <<>>, row_count |-> 0]
    ELSE LET headers == [j \in 1..Len(rows[1]) |-> CellText(rows[1][j])]
             data == [i \in 1..(Len(rows) - 1) |->
                        [j \in 1..Len(rows[i + 1]) |-> CellText(rows[i + 1][j])]]
         IN  [sql_generated |-> sql,
              columns |-> headers,
              rows |-> data,
              row_count |-> Len(data),
              data_scanned_mb |->
                  RoundMilli(DictGet(st, "DataScannedInBytes", 0), 1024 * 1024),
              execution_time_ms |-> DictGet(st, "TotalExecutionTimeInMillis", 0)]

(***************************************************************************)
(* self_healing_pipeline.py: the data of one invocation of lambda_handler  *)
(***************************************************************************)
NumInvocations == 2
Invocations == 1..NumInvocations

\* the locals of an invocation that has not been triggered, with what it
\* has sent to the sinks, the call that raised out of it, the stages it has
\* completed, and whether filter_log_events and get_job_runs raised
Unset ==
    [pc |-> "idle", event |-> EmptyDict, job_name |-> "", run_id |-> "",
     error_msg |-> "", log_context |-> <<>>, recent_runs |-> <<>>,
     prompt |-> None, session_id |-> "", completion |-> <<>>, pos |-> 0,
     full_text |-> <<>>, traces |-> <<>>, agent_response |-> <<>>,
     metric_calls |-> <<>>,
     publish_calls |-> <<>>, raised_by |-> "", stages |-> <<>>, result |-> None,
     logs_failed |-> FALSE, history_failed |-> FALSE]

\* no invocation of the self-healing lambda_handler
IdleHeal ==
    /\ inv = [i \in Invocations |-> Unset]
    /\ env = EmptyDict

\* the events EventBridge may deliver: a Glue job state change with its
\* detail, one whose detail has no jobRunId, one with no detail at all
FailureEvents ==
    { [detail |-> [jobName |-> "sales-transform", jobRunId |-> "jr_1",
                   message |-> "AnalysisException"]],
      [detail |-> [jobName |-> "sales-transform", message |-> "AnalysisException"]],
      [detail |-> [jobName |-> "orders-load", message |-> "OutOfMemory"]],
      EmptyDict }

\* what logs_client.filter_log_events may do: raise, or answer with events
\* (one of them may lack "message")
LogResponses ==
    { [raises |-> TRUE, events |-> <<>>],
      [raises |-> FALSE, events |-> <<>>],
      [raises |-> FALSE, events |-> <<[message |-> "ERROR col missing"],
                                      [message |-> "Traceback"]>>],
      [raises |-> FALSE, events |-> <<[message |-> "ERROR col missing"],
                                      [timestamp |-> "1"]>>] }

LogAnswers(evidence) ==
    IF evidence = "any" THEN LogResponses ELSE {[raises |-> FALSE, events |-> <<>>]}

\* f"Could not retrieve logs: {e}", for the one error text of the model
LogsUnavailable == <<"Could not retrieve logs: error">>

\* get_cloudwatch_logs: the messages (the text is their "\n".join), "No log
\* events found" for none, "Could not retrieve logs: ..." when the request
\* or the extraction raises
get_cloudwatch_logs(resp) ==
    IF resp.raises \/ \E k \in 1..Len(resp.events) : "message" \notin DOMAIN resp.events[k]
    THEN LogsUnavailable
    ELSE IF resp.events = <<>> THEN <<"No log events found">>
    ELSE [k \in 1..Len(resp.events) |-> resp.events[k].message]

\* datetime.isoformat()
IsoFormat(d) == d.date \o "T" \o d.time

\* what glue.get_job_runs may do: raise, or answer with job runs (one may
\* have no ErrorMessage, one may lack StartedOn)
HistoryResponses ==
    { [raises |-> TRUE, JobRuns |-> <<>>],
      [raises |-> FALSE, JobRuns |-> <<>>],
      [raises |-> FALSE,
       JobRuns |-> <<[Id |-> "jr_0", JobRunState |-> "FAILED",
                      StartedOn |-> [date |-> "2024-05-01", time |-> "10:00:00"],
                      ErrorMessage |-> "AnalysisException"],
                     [Id |-> "jr_00", JobRunState |-> "SUCCEEDED",
                      StartedOn |-> [date |-> "2024-04-30", time |-> "10:00:00"]]>>],
      [raises |-> FALSE,
       JobRuns |-> <<[Id |-> "jr_0", JobRunState |-> "STARTING"]>>] }

HistoryAnswers(evidence) ==
    IF evidence = "any" THEN HistoryResponses ELSE {[raises |-> FALSE, JobRuns |-> <<>>]}

\* get_recent_run_history: one record per run, [] when the request or the
\* extraction raises
get_recent_run_history(resp) ==
    IF resp.raises \/ \E k \in 1..Len(resp.JobRuns) : "StartedOn" \notin DOMAIN resp.JobRuns[k]
    THEN <<>>
    ELSE [k \in 1..Len(resp.JobRuns) |->
            [run_id |-> resp.JobRuns[k].Id,
             state |-> resp.JobRuns[k].JobRunState,
             started |-> IsoFormat(resp.JobRuns[k].StartedOn),
             error |-> DictGet(resp.JobRuns[k], "ErrorMessage", "")]]

\* build_prompt: the template with the event and the evidence filled in
build_prompt(job_name, run_id, error_msg, log_context, recent_runs) ==
    [job_name |-> job_name, run_id |-> run_id, error_msg |-> error_msg,
     log_context |-> log_context, recent_runs |-> recent_runs]

\* the events of a response["completion"] stream: a text chunk, a trace
\* with or without an orchestrationTrace, an event that is neither
TextChunk(t) == [key |-> "chunk", bytes |-> t, trace |-> EmptyDict]
TraceChunk(t) == [key |-> "trace", bytes |-> <<>>, trace |-> t]
OtherEvent == [key |-> "returnControl", bytes |-> <<>>, trace |-> EmptyDict]

StreamEvents ==
    { TextChunk(<<"E","S","C","A">>), TextChunk(<<"l","a","t","e">>),
      TextChunk(<<"H","u","m","a","n">>),
      TraceChunk([orchestrationTrace |-> [rationale |-> "step"]]),
      TraceChunk([preProcessingTrace |-> [rationale |-> "pre"]]),
      OtherEvent }

MaxChunks == 3

\* the response streams of at most n events
Streams(n) == SeqsUpTo(StreamEvents, n)

KwEscalate == <<"E","S","C","A","L","A","T","E">>
KwHuman == <<"H","U","M","A","N">>

\* the test of line 54 with the second marker left out
NeedsEscalationEscalateOnly(agent_response) ==
    Contains(KwEscalate, Upper(agent_response))

\* line 54: "ESCALATE" in agent_response.upper() or "HUMAN" in agent_response.upper()
NeedsEscalation(agent_response) ==
    \/ Contains(KwEscalate, Upper(agent_response))
    \/ Contains(KwHuman, Upper(agent_response))

\* line 61: "ESCALATE" not in agent_response.upper()
Resolved(agent_response) == ~Contains(KwEscalate, Upper(agent_response))

\* agent_response[:500]
SUMMARY_CAP == 500
Summary(agent_response) ==
    SubSeq(agent_response, 1,
           IF Len(agent_response) < SUMMARY_CAP THEN Len(agent_response) ELSE SUMMARY_CAP)

\* emit_metrics that leaves the step count out
MetricDataAttemptOnly(job_name, traces) ==
    << [MetricName |-> "AutoRemediationAttempt",
        Dimensions |-> <<[Name |-> "JobName", Value |-> job_name]>>,
        Value |-> 1, Unit |-> "Count"] >>

\* the two data points of emit_metrics
MetricData(job_name, traces) ==
    << [MetricName |-> "AutoRemediationAttempt",
        Dimensions |-> <<[Name |-> "JobName", Value |-> job_name]>>,
        Value |-> 1, Unit |-> "Count"],
       [MetricName |-> "AgentTraceSteps",
        Dimensions |-> <<[Name |-> "JobName", Value |-> job_name]>>,
        Value |-> Len(traces), Unit |-> "Count"] >>

ESCALATION_TOPIC_ARN == "arn:aws:sns:us-east-1:YOUR_ACCOUNT_ID:data-engineering-alerts"

\* the publish request of escalate_to_human
EscalationMessage(job_name, run_id, error_msg, agent_summary) ==
    [TopicArn |-> ESCALATION_TOPIC_ARN,
     Subject |-> "[AgenticDE] Manual intervention needed: " \o job_name,
     Message |-> [alert |-> "Agent could not auto-remediate",
                  job_name |-> job_name,
                  run_id |-> run_id,
                  error |-> error_msg,
                  agent_analysis |-> agent_summary,
                  action_required |-> "Please review and re-trigger manually"]]

(***************************************************************************)
(* self_healing_pipeline.py: lambda_handler, one action per stage of       *)
(* invocation i.  A call that raises where the code has no handler ends    *)
(* the invocation at pc = "raised", raised_by naming the call.             *)
(***************************************************************************)
\* the event arrives: detail, job_name, run_id and error_msg with defaults
Trigger(i) ==
    /\ inv[i].pc = "idle"
    /\ \E event \in FailureEvents :
          LET detail == DictGet(event, "detail", EmptyDict)
          IN  inv' = [inv EXCEPT ![i] =
                        [@ EXCEPT !.pc = "logs",
                                  !.event = event,
                                  !.job_name = DictGet(detail, "jobName", "unknown"),
                                  !.run_id = DictGet(detail, "jobRunId", "unknown"),
                                  !.error_msg = DictGet(detail, "message",
                                                        "No error message provided"),
                                  !.stages = Append(@, "start")]]
    /\ UNCHANGED <<vvars, qvars, env>>

\* log_context = get_cloudwatch_logs(job_name, run_id)
GetLogs(i) ==
    /\ inv[i].pc = "logs"
    /\ \E resp \in LogAnswers(env.evidence) :
          inv' = [inv EXCEPT ![i] =
                    [@ EXCEPT !.pc = "history",
                              !.log_context = get_cloudwatch_logs(resp),
                              !.logs_failed = resp.raises,
                              !.stages = Append(@, "logs")]]
    /\ UNCHANGED <<vvars, qvars, env>>

\* recent_runs = get_recent_run_history(job_name)
GetHistory(i) ==
    /\ inv[i].pc = "history"
    /\ \E resp \in HistoryAnswers(env.evidence) :
          inv' = [inv EXCEPT ![i] =
                    [@ EXCEPT !.pc = "prompt",
                              !.recent_runs = get_recent_run_history(resp),
                              !.history_failed = resp.raises,
                              !.stages = Append(@, "history")]]
    /\ UNCHANGED <<vvars, qvars, env>>

\* prompt = build_prompt(job_name, run_id, error_msg, log_context, recent_runs)
BuildPrompt(i) ==
    /\ inv[i].pc = "prompt"
    /\ inv' = [inv EXCEPT ![i] =
                 [@ EXCEPT !.pc = "invoke",
                           !.prompt = build_prompt(inv[i].job_name, inv[i].run_id,
                                                   inv[i].error_msg, inv[i].log_context,
                                                   inv[i].recent_runs),
                           !.stages = Append(@, "prompt")]]
    /\ UNCHANGED <<vvars, qvars, env>>

\* session_id=f"heal-{run_id}"
SessionId(run_id) == "heal-" \o run_id

\* invoke_agent is entered: bedrock_runtime.invoke_agent under the session
\* id opens the response stream, or raises
InvokeAgent(i) ==
    /\ inv[i].pc = "invoke"
    /\ \/ \E stream \in Streams(env.max_chunks) :
             inv' = [inv EXCEPT ![i] =
                       [@ EXCEPT !.pc = "stream",
                                 !.session_id = SessionId(inv[i].run_id),
                                 !.completion = stream,
                                 !.pos = 0,
                                 !.full_text = <<>>,
                                 !.traces = <<>>]]
       \/ inv' = [inv EXCEPT ![i] =
                    [@ EXCEPT !.pc = "raised",
                              !.session_id = SessionId(inv[i].run_id),
                              !.raised_by = "invoke_agent"]]
    /\ UNCHANGED <<vvars, qvars, env>>

\* ConsumeEvent with `full_text =` in place of `full_text +=`
ConsumeEventOverwrites(i) ==
    /\ inv[i].pc = "stream"
    /\ inv[i].pos < Len(inv[i].completion)
    /\ LET chunk == inv[i].completion[inv[i].pos + 1]
       IN  \/ inv' = [inv EXCEPT ![i] =
                        [@ EXCEPT !.pos = @ + 1,
                                  !.full_text =
                                      IF chunk.key = "chunk" THEN chunk.bytes ELSE @,
                                  !.traces =
                                      IF /\ chunk.key = "trace"
                                         /\ "orchestrationTrace" \in DOMAIN chunk.trace
                                      THEN Append(@, chunk.trace.orchestrationTrace)
                                      ELSE @]]
           \/ inv' = [inv EXCEPT ![i] =
                        [@ EXCEPT !.pc = "raised", !.raised_by = "completion"]]
    /\ UNCHANGED <<vvars, qvars, env>>

\* one iteration of `for chunk in response["completion"]`, or the stream
\* raising in place of its next event
ConsumeEvent(i) ==
    /\ inv[i].pc = "stream"
    /\ inv[i].pos < Len(inv[i].completion)
    /\ LET chunk == inv[i].completion[inv[i].pos + 1]
       IN  \/ inv' = [inv EXCEPT ![i] =
                        [@ EXCEPT !.pos = @ + 1,
                                  !.full_text =
                                      IF chunk.key = "chunk" THEN @ \o chunk.bytes ELSE @,
                                  !.traces =
                                      IF /\ chunk.key = "trace"
                                         /\ "orchestrationTrace" \in DOMAIN chunk.trace
                                      THEN Append(@, chunk.trace.orchestrationTrace)
                                      ELSE @]]
           \/ inv' = [inv EXCEPT ![i] =
                        [@ EXCEPT !.pc = "raised", !.raised_by = "completion"]]
    /\ UNCHANGED <<vvars, qvars, env>>

\* the stream is exhausted: invoke_agent returns full_text, traces
StreamEnd(i) ==
    /\ inv[i].pc = "stream"
    /\ inv[i].pos = Len(inv[i].completion)
    /\ inv' = [inv EXCEPT ![i] =
                 [@ EXCEPT !.pc = "metrics",
                           !.agent_response = inv[i].full_text,
                           !.stages = Append(@, "agent")]]
    /\ UNCHANGED <<vvars, qvars, env>>

\* emit_metrics(job_name, traces): one put_metric_data request with the two
\* data points, which returns or raises
EmitMetrics(i) ==
    /\ inv[i].pc = "metrics"
    /\ \/ inv' = [inv EXCEPT ![i] =
                    [@ EXCEPT !.pc = "route",
                              !.metric_calls =
                                  Append(@, MetricData(inv[i].job_name, inv[i].traces)),
                              !.stages = Append(@, "metrics")]]
       \/ inv' = [inv EXCEPT ![i] =
                    [@ EXCEPT !.pc = "raised",
                              !.metric_calls =
                                  Append(@, MetricData(inv[i].job_name, inv[i].traces)),
                              !.raised_by = "put_metric_data"]]
    /\ UNCHANGED <<vvars, qvars, env>>

\* Escalate moved ahead of emit_metrics
EscalateBeforeMetrics(i) ==
    /\ inv[i].pc = "metrics"
    /\ NeedsEscalation(inv[i].agent_response)
    /\ inv[i].publish_calls = <<>>
    /\ inv' = [inv EXCEPT ![i] =
                 [@ EXCEPT !.publish_calls =
                               Append(@, EscalationMessage(inv[i].job_name, inv[i].run_id,
                                                           inv[i].error_msg,
                                                           inv[i].agent_response))]]
    /\ UNCHANGED <<vvars, qvars, env>>

\* the narrative calls for escalation: escalate_to_human makes one publish
\* request, which returns or raises
Escalate(i) ==
    /\ inv[i].pc = "route"
    /\ NeedsEscalation(inv[i].agent_response)
    /\ \/ inv' = [inv EXCEPT ![i] =
                    [@ EXCEPT !.pc = "return",
                              !.publish_calls =
                                  Append(@, EscalationMessage(inv[i].job_name, inv[i].run_id,
                                                              inv[i].error_msg,
                                                              inv[i].agent_response)),
                              !.stages = Append(@, "notify")]]
       \/ inv' = [inv EXCEPT ![i] =
                    [@ EXCEPT !.pc = "raised",
                              !.publish_calls =
                                  Append(@, EscalationMessage(inv[i].job_name, inv[i].run_id,
                                                              inv[i].error_msg,
                                                              inv[i].agent_response)),
                              !.raised_by = "publish"]]
    /\ UNCHANGED <<vvars, qvars, env>>

\* the summary is returned, after the escalation or when none is called for
ReturnSummary(i) ==
    /\ \/ inv[i].pc = "return"
       \/ inv[i].pc = "route" /\ ~NeedsEscalation(inv[i].agent_response)
    /\ inv' = [inv EXCEPT ![i] =
                 [@ EXCEPT !.pc = "done",
                           !.result = [job_name |-> inv[i].job_name,
                                       run_id |-> inv[i].run_id,
                                       agent_steps |-> Len(inv[i].traces),
                                       resolved |-> Resolved(inv[i].agent_response),
                                       summary |-> Summary(inv[i].agent_response)],
                           !.stages = Append(@, "return")]]
    /\ UNCHANGED <<vvars, qvars, env>>

\* a step of invocation i
HandlerStep(i) ==
    \/ Trigger(i)
    \/ GetLogs(i)
    \/ GetHistory(i)
    \/ BuildPrompt(i)
    \/ InvokeAgent(i)
    \/ ConsumeEvent(i)
    \/ StreamEnd(i)
    \/ EmitMetrics(i)
    \/ Escalate(i)
    \/ ReturnSummary(i)

(***************************************************************************)
(* handler.py: execute_nl_query, one action per stage.  A call that raises *)
(* where the code has no handler ends the run at pc = "raised": the        *)
(* exception leaves execute_nl_query and no result is returned.            *)
(***************************************************************************)
NoCalls == [generate |-> 0, status |-> 0, results |-> 0]

\* the locals of a run that has not started
QueryLocalsUnset ==
    /\ schema_context = <<>>
    /\ gen_prompt = None
    /\ sql_query = <<>>
    /\ safety_check = None
    /\ query_id = ""
    /\ result = None
    /\ timeout_seconds = 0
    /\ poll_i = 0
    /\ state = ""
    /\ stats = EmptyDict
    /\ submitted = <<>>
    /\ calls = NoCalls
    /\ slept = 0
    /\ sawTerminal = FALSE
    /\ firstTerminal = None
    /\ catalog_failed = FALSE
    /\ retrieved = <<>>

\* execute_nl_query(question, database) is called
InitQuery ==
    /\ pc = "start"
    /\ question \in Questions
    /\ database \in Databases
    /\ QueryLocalsUnset

\* no run of execute_nl_query
IdleQuery ==
    /\ pc = "idle"
    /\ question = ""
    /\ database = ""
    /\ QueryLocalsUnset

\* no call of validate_sql on its own
IdleValidate ==
    /\ sql_in = <<>>
    /\ verdict = None

\* FetchSchema that lets the error of glue.get_tables through
FetchSchemaPropagates ==
    /\ pc = "start"
    /\ \E resp \in CatalogResponses :
          /\ schema_context' = IF resp.raises THEN schema_context
                                ELSE get_catalog_schema(resp)
          /\ catalog_failed' = resp.raises
          /\ pc' = IF resp.raises THEN "raised" ELSE "generate"
    /\ UNCHANGED <<vvars, hvars, question, database, gen_prompt, sql_query, safety_check,
                   query_id, result, timeout_seconds, poll_i, state, stats,
                   submitted, calls, slept, sawTerminal,
                   firstTerminal, retrieved>>

\* 1. schema_context = get_catalog_schema(database)
FetchSchema ==
    /\ pc = "start"
    /\ \E resp \in CatalogResponses :
          /\ schema_context' = get_catalog_schema(resp)
          /\ catalog_failed' = resp.raises
    /\ pc' = "generate"
    /\ UNCHANGED <<vvars, hvars, question, database, gen_prompt, sql_query, safety_check,
                   query_id, result, timeout_seconds, poll_i, state, stats,
                   submitted, calls, slept, sawTerminal,
                   firstTerminal, retrieved>>

\* 2. sql_query = generate_sql(question, database, schema_context): one
\* invoke_model request; the first content segment, stripped
GenerateSql ==
    /\ pc = "generate"
    /\ gen_prompt' = generate_prompt(question, database, schema_context)
    /\ calls' = [calls EXCEPT !.generate = @ + 1]
    /\ \E resp \in GenerationResponses :
          IF resp.raises \/ resp.content = <<>>
          THEN /\ pc' = "raised"
               /\ UNCHANGED sql_query
          ELSE /\ pc' = "validate"
               /\ sql_query' = Strip(resp.content[1])
    /\ UNCHANGED <<vvars, hvars, question, database, schema_context, safety_check,
                   query_id, result, timeout_seconds, poll_i, state, stats,
                   submitted, slept, sawTerminal,
                   firstTerminal, catalog_failed, retrieved>>

\* ValidateStep with the test inverted: returns on a safe verdict
ValidateStepInverted ==
    /\ pc = "validate"
    /\ safety_check' = validate_sql(sql_query)
    /\ IF safety_check'.safe
       THEN /\ pc' = "done"
            /\ result' = [error |-> "Query blocked: ", sql |-> sql_query]
       ELSE /\ pc' = "submit"
            /\ UNCHANGED result
    /\ UNCHANGED <<vvars, hvars, question, database, schema_context, gen_prompt, sql_query,
                   query_id, timeout_seconds, poll_i, state, stats,
                   submitted, calls, slept, sawTerminal,
                   firstTerminal, catalog_failed, retrieved>>

\* ValidateStep that has the query generated again after a rejection
ValidateStepRegenerates ==
    /\ pc = "validate"
    /\ safety_check' = validate_sql(sql_query)
    /\ pc' = IF ~safety_check'.safe THEN "generate" ELSE "submit"
    /\ UNCHANGED <<vvars, hvars, question, database, schema_context, gen_prompt, sql_query,
                   query_id, result, timeout_seconds, poll_i, state, stats,
                   submitted, calls, slept, sawTerminal,
                   firstTerminal, catalog_failed, retrieved>>

\* 3. safety_check = validate_sql(sql_query); an unsafe verdict returns the
\* error with the reason and the query
ValidateStep ==
    /\ pc = "validate"
    /\ safety_check' = validate_sql(sql_query)
    /\ IF ~safety_check'.safe
       THEN /\ pc' = "done"
            /\ result' = [error |-> "Query blocked: " \o safety_check'.reason,
                          sql |-> sql_query]
       ELSE /\ pc' = "submit"
            /\ UNCHANGED result
    /\ UNCHANGED <<vvars, hvars, question, database, schema_context, gen_prompt, sql_query,
                   query_id, timeout_seconds, poll_i, state, stats,
                   submitted, calls, slept, sawTerminal,
                   firstTerminal, catalog_failed, retrieved>>

\* 4. query_id = run_athena_query(sql_query, database), then poll_query is
\* entered with its default timeout
SubmitStep ==
    /\ pc = "submit"
    /\ submitted' = Append(submitted, [QueryString |-> sql_query, Database |-> database])
    /\ \E resp \in SubmitResponses :
          IF resp.raises
          THEN /\ pc' = "raised"
               /\ UNCHANGED <<query_id, timeout_seconds, poll_i>>
          ELSE /\ pc' = "poll"
               /\ query_id' = resp.id
               /\ timeout_seconds' = DEFAULT_TIMEOUT
               /\ poll_i' = 0
    /\ UNCHANGED <<vvars, hvars, question, database, schema_context, gen_prompt, sql_query,
                   safety_check, result, state, stats, calls, slept, sawTerminal,
                   firstTerminal, catalog_failed, retrieved>>

\* PollRounds with an iteration too many
PollRoundsOffByOne(t) == RangeLen(t \div POLL_INTERVAL) + 1

\* the number of iterations of poll_query's loop: range(timeout_seconds // 2)
PollRounds(t) == RangeLen(t \div POLL_INTERVAL)

\* IsTerminal that does not know CANCELLED
IsTerminalNoCancelled(s) == s \in {"SUCCEEDED", "FAILED"}

\* poll_query's test of the state a status request reported
IsTerminal(s) == s \in {"SUCCEEDED", "FAILED", "CANCELLED"}

\* one iteration of poll_query's loop: a status request; a terminal state
\* returns it with its statistics, any other state sleeps and goes on
PollStatus ==
    /\ pc = "poll"
    /\ poll_i < PollRounds(timeout_seconds)
    /\ calls' = [calls EXCEPT !.status = @ + 1]
    /\ \/ \E resp \in StatusResponses :
             /\ state' = resp.State
             /\ sawTerminal' = (sawTerminal \/ resp.State \in TerminalStates)
             /\ firstTerminal' =
                   IF firstTerminal = None /\ resp.State \in TerminalStates
                   THEN [State |-> resp.State, at |-> calls'.status, slept |-> slept]
                   ELSE firstTerminal
             /\ IF IsTerminal(resp.State)
                THEN /\ stats' = resp.Statistics
                     /\ pc' = "polled"
                     /\ UNCHANGED <<poll_i, slept>>
                ELSE /\ slept' = slept + POLL_INTERVAL
                     /\ poll_i' = poll_i + 1
                     /\ UNCHANGED <<pc, stats>>
       \/ /\ pc' = "raised"
          /\ UNCHANGED <<state, stats, poll_i, slept, sawTerminal, firstTerminal>>
    /\ UNCHANGED <<vvars, hvars, question, database, schema_context, gen_prompt, sql_query,
                   safety_check, query_id, result, timeout_seconds, submitted,
                   catalog_failed, retrieved>>

\* the loop is exhausted: return "TIMEOUT", {}
PollTimeout ==
    /\ pc = "poll"
    /\ poll_i >= PollRounds(timeout_seconds)
    /\ state' = "TIMEOUT"
    /\ stats' = EmptyDict
    /\ pc' = "polled"
    /\ UNCHANGED <<vvars, hvars, question, database, schema_context, gen_prompt, sql_query,
                   safety_check, query_id, result, timeout_seconds, poll_i,
                   submitted, calls, slept, sawTerminal,
                   firstTerminal, catalog_failed, retrieved>>

\* AfterPoll that lets a CANCELLED query through to the result fetch
AfterPollFailedOnly ==
    /\ pc = "polled"
    /\ IF state \in {"FAILED", "TIMEOUT"}
       THEN /\ pc' = "done"
            /\ result' = [error |-> "Athena query " \o state, sql |-> sql_query,
                          query_id |-> query_id]
       ELSE /\ pc' = "fetch"
            /\ UNCHANGED result
    /\ UNCHANGED <<vvars, hvars, question, database, schema_context, gen_prompt, sql_query,
                   safety_check, query_id, timeout_seconds, poll_i, state, stats,
                   submitted, calls, slept, sawTerminal,
                   firstTerminal, catalog_failed, retrieved>>

\* 5. state, stats = poll_query(query_id); any state but SUCCEEDED returns
\* the error with the state, the query and the id
AfterPoll ==
    /\ pc = "polled"
    /\ IF state # "SUCCEEDED"
       THEN /\ pc' = "done"
            /\ result' = [error |-> "Athena query " \o state, sql |-> sql_query,
                          query_id |-> query_id]
       ELSE /\ pc' = "fetch"
            /\ UNCHANGED result
    /\ UNCHANGED <<vvars, hvars, question, database, schema_context, gen_prompt, sql_query,
                   safety_check, query_id, timeout_seconds, poll_i, state, stats,
                   submitted, calls, slept, sawTerminal,
                   firstTerminal, catalog_failed, retrieved>>

\* 6. return fetch_results(query_id, sql_query, stats), the service answering
\* the one get_query_results request with a result set of `sets` or an error
FetchResultsOf(sets) ==
    /\ pc = "fetch"
    /\ calls' = [calls EXCEPT !.results = @ + 1]
    /\ \/ \E rows \in sets :
             /\ retrieved' = rows
             /\ result' = fetch_results(rows, sql_query, stats)
             /\ pc' = "done"
       \/ /\ pc' = "raised"
          /\ UNCHANGED <<result, retrieved>>
    /\ UNCHANGED <<vvars, hvars, question, database, schema_context, gen_prompt, sql_query,
                   safety_check, query_id, timeout_seconds, poll_i, state, stats,
                   submitted, slept, sawTerminal,
                   firstTerminal, catalog_failed>>

FetchResults == FetchResultsOf(ResultSets)

Next ==
    \/ FetchSchema
    \/ GenerateSql
    \/ ValidateStep
    \/ SubmitStep
    \/ PollStatus
    \/ PollTimeout
    \/ AfterPoll
    \/ FetchResults

\* one run of execute_nl_query
Init == InitQuery /\ IdleValidate /\ IdleHeal

Spec == Init /\ [][Next]_vars

(***************************************************************************)
(* poll_query called on its own, with any timeout_seconds                  *)
(***************************************************************************)
MaxTimeout == 9

InitPoll ==
    /\ IdleValidate
    /\ IdleHeal
    /\ pc = "poll"
    /\ question = ""
    /\ database = ""
    /\ schema_context = <<>>
    /\ gen_prompt = None
    /\ sql_query = <<>>
    /\ safety_check = None
    /\ query_id = "qe-1"
    /\ result = None
    /\ timeout_seconds \in (0 - 1)..MaxTimeout
    /\ poll_i = 0
    /\ state = ""
    /\ stats = EmptyDict
    /\ submitted = <<>>
    /\ calls = NoCalls
    /\ slept = 0
    /\ sawTerminal = FALSE
    /\ firstTerminal = None
    /\ catalog_failed = FALSE
    /\ retrieved = <<>>

NextPoll == PollStatus \/ PollTimeout

SpecPoll == InitPoll /\ [][NextPoll]_vars

(***************************************************************************)
(* fetch_results called on its own, after a query that succeeded, with     *)
(* any result set of Athena's shape                                        *)
(***************************************************************************)
InitFetch ==
    /\ IdleValidate
    /\ IdleHeal
    /\ pc = "fetch"
    /\ question = ""
    /\ database = ""
    /\ schema_context = <<>>
    /\ gen_prompt = None
    /\ sql_query = <<"S","E","L","E","C","T"," ","1">>
    /\ safety_check = None
    /\ query_id = "qe-1"
    /\ result = None
    /\ timeout_seconds = 0
    /\ poll_i = 0
    /\ state = "SUCCEEDED"
    /\ stats \in StatisticsChoices \cup {EmptyDict}
    /\ submitted = <<>>
    /\ calls = NoCalls
    /\ slept = 0
    /\ sawTerminal = FALSE
    /\ firstTerminal = None
    /\ catalog_failed = FALSE
    /\ retrieved = <<>>

\* the result sets fetch_results is called against
FetchableResultSets == RectResultSets(MaxRows, MaxCols)

NextFetch == FetchResultsOf(FetchableResultSets)

SpecFetch == InitFetch /\ [][NextFetch]_vars

(***************************************************************************)
(* validate_sql called on its own, with any text                           *)
(***************************************************************************)
InitValidate ==
    /\ sql_in \in Texts(MaxFrags)
    /\ verdict = None
    /\ IdleQuery
    /\ IdleHeal

Validate ==
    /\ verdict = None
    /\ verdict' = validate_sql(sql_in)
    /\ UNCHANGED <<sql_in, qvars, hvars>>

NextValidate == Validate

SpecValidate == InitValidate /\ [][NextValidate]_vars

(***************************************************************************)
(* One invocation of the self-healing lambda_handler, against every        *)
(* behaviour of the services                                               *)
(***************************************************************************)
InitHeal ==
    /\ IdleValidate
    /\ IdleQuery
    /\ inv = [i \in Invocations |-> Unset]
    /\ env = [max_chunks |-> MaxChunks, evidence |-> "any"]

NextHeal == HandlerStep(1)

SpecHeal == InitHeal /\ [][NextHeal]_vars

(***************************************************************************)
(* Concurrent invocations of the self-healing lambda_handler: Lambda runs  *)
(* one per delivered event, and EventBridge may deliver an event twice     *)
(***************************************************************************)
InitSessions ==
    /\ IdleValidate
    /\ IdleQuery
    /\ inv = [i \in Invocations |-> Unset]
    /\ env = [max_chunks |-> 1, evidence |-> "empty"]

NextSessions == \E i \in Invocations : HandlerStep(i)

SpecSessions == InitSessions /\ [][NextSessions]_vars

(***************************************************************************)
(* Either Lambda is invoked: one run of execute_nl_query, or one           *)
(* invocation of the self-healing lambda_handler                           *)
(***************************************************************************)
InitEither ==
    /\ IdleValidate
    /\ InitQuery
    /\ inv = [i \in Invocations |-> Unset]
    /\ env = [max_chunks |-> 1, evidence |-> "any"]

NextEither ==
    \/ inv[1].pc = "idle" /\ Next
    \/ pc = "start" /\ NextHeal

SpecEither == InitEither /\ [][NextEither]_vars

(***************************************************************************)
(* Claims about execute_nl_query and poll_query                            *)
(***************************************************************************)
\* C1: when validate_sql rejects the generated query, nothing is ever
\* submitted to the execution service in that run, and the run returns the
\* error that carries the rejection reason and the rejected query text.
C1_RejectedNeverSubmitted ==
    (safety_check # None /\ ~safety_check.safe)
        => /\ submitted = <<>>
           /\ query_id = ""
           /\ pc = "done"
           /\ result = [error |-> "Query blocked: " \o safety_check.reason,
                        sql |-> sql_query]

\* C1 witness: a generated text with a blocked keyword split over two
\* fragments (DR + OP) has been rejected and returned, nothing submitted.
C1_Witness ==
    /\ pc = "done"
    /\ sql_query = <<"D","R","O","P">>
    /\ safety_check = [safe |-> FALSE, reason |-> "Blocked keyword detected: DROP"]
    /\ result.error = "Query blocked: Blocked keyword detected: DROP"
    /\ submitted = <<>>

\* C5 (as claimed): no run of execute_nl_query ends with an exception
\* leaving it; every run that ends has returned a structured result.
C5_EveryRunReturns ==
    /\ pc # "raised"
    /\ (pc = "done" => result # None)

\* C7: called with timeout_seconds >= 0 against a service that never
\* reports a terminal state, poll_query returns "TIMEOUT" with empty
\* statistics; it makes at most floor(timeout_seconds / 2) status requests
\* and its sleeps never add up to more than timeout_seconds.
C7_TimeoutBound ==
    timeout_seconds >= 0
        => /\ calls.status <= timeout_seconds \div 2
           /\ slept <= timeout_seconds
           /\ (pc = "polled" /\ ~sawTerminal)
                 => (state = "TIMEOUT" /\ stats = EmptyDict)

\* C7 witness: timeout 4, two status requests, both non-terminal, TIMEOUT.
C7_Witness ==
    /\ pc = "polled"
    /\ timeout_seconds = 4
    /\ ~sawTerminal
    /\ calls.status = 2
    /\ slept = 4
    /\ state = "TIMEOUT"

\* C8: when poll_query ends in FAILED, CANCELLED or TIMEOUT the run returns
\* the error carrying that state, the query and the execution id, and no
\* result request is made; results are requested only after SUCCEEDED.
C8_NonSuccessReturnsError ==
    /\ (state \in {"FAILED", "CANCELLED", "TIMEOUT"} /\ pc # "polled")
          => /\ pc = "done"
             /\ result = [error |-> "Athena query " \o state, sql |-> sql_query,
                          query_id |-> query_id]
             /\ calls.results = 0
    /\ (calls.results > 0 \/ pc = "fetch") => state = "SUCCEEDED"

\* C8 witness: a run whose query was cancelled at its third status request
\* has returned the error.
C8_Witness ==
    /\ pc = "done"
    /\ state = "CANCELLED"
    /\ calls.status = 3
    /\ result.error = "Athena query CANCELLED"
    /\ result.query_id = "qe-1"
    /\ calls.results = 0

(***************************************************************************)
(* Claims about the self-healing lambda_handler                            *)
(***************************************************************************)
HasEscalateWord(text) == Contains(KwEscalate, Upper(text))
HasHumanWord(text) == Contains(KwHuman, Upper(text))

C3_ResolvedIffNotNotified ==
    \A i \in Invocations :
        inv[i].pc = "done"
            => (inv[i].result.resolved <=> inv[i].publish_calls = <<>>)

\* C4 (as claimed): a put_metric_data or publish request that raises does
\* not end the invocation: no run is ended by an exception of either sink.
C4_SinkFailuresSwallowed ==
    \A i \in Invocations :
        inv[i].raised_by \notin {"put_metric_data", "publish"}

\* C6 (as claimed): two invocations whose agent sessions are open at the
\* same time use distinct session identifiers.
C6_SessionsDistinct ==
    \A i, j \in Invocations :
        (i # j /\ inv[i].pc = "stream" /\ inv[j].pc = "stream")
            => inv[i].session_id # inv[j].session_id

(***************************************************************************)
(* Claims about validate_sql                                               *)
(***************************************************************************)
ContainsBlocked(s) ==
    \E k \in 1..Len(BLOCKED_KEYWORDS) : Contains(BLOCKED_KEYWORDS[k].chars, Upper(s))

\* the text, trimmed, begins with the keyword SELECT or WITH (in any case)
BeginsAllowed(s) ==
    \/ StartsWith(Upper(Strip(s)), KwSelect)
    \/ StartsWith(Upper(Strip(s)), KwWith)

\* C9: a query whose uppercased form contains DROP, DELETE, INSERT, UPDATE,
\* ALTER, TRUNCATE or CREATE anywhere is rejected (safe = false) and the
\* verdict carries a non-empty reason.
C9_BlockedRejected ==
    (verdict # None /\ ContainsBlocked(sql_in))
        => /\ verdict.safe = FALSE
           /\ "reason" \in DOMAIN verdict
           /\ verdict.reason # ""

\* C9 witness: a query with a leading SELECT and a lower-case blocked keyword
\* further on has been validated and rejected.
C9_Witness ==
    /\ verdict # None
    /\ StartsWith(sql_in, KwSelect)
    /\ ContainsBlocked(sql_in)
    /\ \A k \in 1..Len(BLOCKED_KEYWORDS) : ~Contains(BLOCKED_KEYWORDS[k].chars, sql_in)
    /\ verdict.safe = FALSE

\* C10: a query that, trimmed of surrounding whitespace, does not begin
\* with SELECT or WITH is rejected (safe = false).
C10_NonSelectRejected ==
    (verdict # None /\ ~BeginsAllowed(sql_in)) => verdict.safe = FALSE

\* C10 witness: a query with no blocked keyword that holds SELECT but not at
\* its start (EXPLAIN SELECT) has been validated and rejected.
C10_Witness ==
    /\ verdict # None
    /\ ~ContainsBlocked(sql_in)
    /\ ~BeginsAllowed(sql_in)
    /\ Contains(KwSelect, sql_in)
    /\ verdict.safe = FALSE

\* C11: a query that begins with SELECT or WITH (behind any leading
\* whitespace, in any case) and whose uppercased form contains no blocked
\* keyword is accepted: validate_sql returns safe = true.
C11_AllowedAccepted ==
    (verdict # None /\ BeginsAllowed(sql_in) /\ ~ContainsBlocked(sql_in))
        => verdict.safe = TRUE

\* C11 witness: a query that begins with WITH and has no blocked keyword has
\* been validated and accepted.
C11_Witness ==
    /\ verdict # None
    /\ StartsWith(Upper(sql_in), KwWith)
    /\ ~ContainsBlocked(sql_in)
    /\ Len(sql_in) > Len(KwWith)
    /\ verdict = [safe |-> TRUE]

ReachedRouting(i) ==
    \/ inv[i].pc \in {"route", "return", "done"}
    \/ inv[i].pc = "raised" /\ inv[i].raised_by = "publish"

\* C13: an invocation that has reached the routing step has emitted exactly
\* two metric data points, in one request: a remediation-attempt count of 1
\* and a step count equal to the number of collected traces, both tagged
\* with the job name, whether or not the narrative escalates.
C13_TwoDataPoints ==
    \A i \in Invocations :
        ReachedRouting(i)
            => /\ Len(inv[i].metric_calls) = 1
               /\ LET data == inv[i].metric_calls[1]
                  IN  /\ Len(data) = 2
                      /\ data[1].MetricName = "AutoRemediationAttempt"
                      /\ data[1].Value = 1
                      /\ data[2].MetricName = "AgentTraceSteps"
                      /\ data[2].Value = Len(inv[i].traces)
                      /\ \A k \in 1..Len(data) :
                            data[k].Dimensions =
                                <<[Name |-> "JobName", Value |-> inv[i].job_name]>>

\* C13 witness: an invocation that collected two traces and did not escalate
\* has returned, its step count 2; its job name came from the event.
C13_Witness ==
    /\ inv[1].pc = "done"
    /\ inv[1].publish_calls = <<>>
    /\ Len(inv[1].traces) = 2
    /\ inv[1].job_name = "orders-load"
    /\ inv[1].metric_calls[1][2].Value = 2

(***************************************************************************)
(* Claims about the evidence collectors                                    *)
(***************************************************************************)
\* C14: a failure of the catalog fetch, the log fetch or the run-history
\* fetch never raises out of get_catalog_schema, get_cloudwatch_logs or
\* get_recent_run_history: each returns its sentinel or empty value, and
\* the pipeline goes on to its next stage with it (the generation prompt
\* carries the schema sentinel; the agent prompt carries the log sentinel
\* and the empty history, and the agent is invoked).
C14_CollectorsNeverRaise ==
    /\ catalog_failed
          => /\ schema_context = SchemaUnavailable
             /\ pc # "start"
             /\ calls.generate >= 1 => gen_prompt.schema = SchemaUnavailable
    /\ pc = "raised" => calls.generate >= 1
    /\ \A i \in Invocations :
          /\ inv[i].logs_failed
                => /\ inv[i].log_context = LogsUnavailable
                   /\ inv[i].prompt # None
                         => inv[i].prompt.log_context = LogsUnavailable
          /\ inv[i].history_failed
                => /\ inv[i].recent_runs = <<>>
                   /\ inv[i].prompt # None => inv[i].prompt.recent_runs = <<>>
          /\ inv[i].pc = "raised"
                => /\ inv[i].prompt # None
                   /\ inv[i].raised_by \in
                         {"invoke_agent", "completion", "put_metric_data", "publish"}

\* C14 witness: the log fetch and the run-history fetch both failed, and the
\* agent has been invoked with the prompt built from the two values.
C14_Witness ==
    /\ inv[1].logs_failed
    /\ inv[1].history_failed
    /\ inv[1].pc = "stream"
    /\ inv[1].prompt.log_context = LogsUnavailable
    /\ inv[1].prompt.recent_runs = <<>>

(***************************************************************************)
(* Claims about poll_query (continued)                                     *)
(***************************************************************************)
\* C15: poll_query returns a terminal state exactly when that state is the
\* one reported by the first status request that observed a terminal state,
\* among at most floor(timeout_seconds / 2) requests; it makes no status
\* request and no wait after that observation (it has then slept once per
\* earlier request), and it returns TIMEOUT only when no status request it
\* made observed a terminal state.
C15_FirstTerminalReturned ==
    /\ firstTerminal # None
          => /\ calls.status = firstTerminal.at
             /\ slept = firstTerminal.slept
             /\ slept = POLL_INTERVAL * (calls.status - 1)
    /\ pc = "polled"
          => /\ timeout_seconds >= 0 => calls.status <= timeout_seconds \div 2
             /\ state \in TerminalStates \cup {"TIMEOUT"}
             /\ state \in TerminalStates
                   <=> (firstTerminal # None /\ state = firstTerminal.State)
             /\ state = "TIMEOUT" => firstTerminal = None

\* C15 witness: the third status request was the first to observe a terminal
\* state, CANCELLED, after two waits, and poll_query has returned it.
C15_Witness ==
    /\ pc = "polled"
    /\ state = "CANCELLED"
    /\ firstTerminal # None
    /\ firstTerminal.at = 3
    /\ calls.status = 3
    /\ slept = 4

(***************************************************************************)
(* Claims about invoke_agent                                               *)
(***************************************************************************)
\* the text chunks, the trace chunks and the trace chunks that carry an
\* orchestrationTrace, each in stream order
TextChunksOf(stream) == SelectSeq(stream, LAMBDA e : e.key = "chunk")
TraceChunksOf(stream) == SelectSeq(stream, LAMBDA e : e.key = "trace")
OrchestrationChunksOf(stream) ==
    SelectSeq(stream, LAMBDA e : e.key = "trace" /\ "orchestrationTrace" \in DOMAIN e.trace)

\* the concatenation of the text chunks in stream order
NarrativeOf(stream) ==
    Concat([k \in 1..Len(TextChunksOf(stream)) |-> TextChunksOf(stream)[k].bytes])

\* invoke_agent has returned in invocation i
AgentReturned(i) ==
    \/ inv[i].pc \in {"metrics", "route", "return", "done"}
    \/ inv[i].pc = "raised" /\ inv[i].raised_by \in {"put_metric_data", "publish"}

C17_SinglePass ==
    /\ Len(submitted) <= 1
    /\ calls.generate <= 1
    /\ calls.results <= 1
    /\ (pc = "done" /\ "error" \in DOMAIN result)
          => /\ calls.generate = 1
             /\ calls.results = 0
             /\ IF safety_check.safe
                THEN /\ Len(submitted) = 1
                     /\ state \in {"FAILED", "CANCELLED", "TIMEOUT"}
                ELSE /\ submitted = <<>>
                     /\ calls.status = 0

\* C17 witness: a run whose query timed out after the full thirty status
\* requests has returned the error, with one generation and one submission.
C17_Witness ==
    /\ pc = "done"
    /\ state = "TIMEOUT"
    /\ "error" \in DOMAIN result
    /\ calls.status = DEFAULT_TIMEOUT \div POLL_INTERVAL
    /\ calls.generate = 1
    /\ Len(submitted) = 1

(***************************************************************************)
(* Claims about the order of the self-healing stages                       *)
(***************************************************************************)
IsPrefix(s, t) == Len(s) <= Len(t) /\ s = SubSeq(t, 1, Len(s))

\* the stages of an invocation that escalates, and of one that does not
EscalatingOrder ==
    <<"start", "logs", "history", "prompt", "agent", "metrics", "notify", "return">>
QuietOrder ==
    <<"start", "logs", "history", "prompt", "agent", "metrics", "return">>

\* C18: the stages of an invocation complete in one fixed order: log fetch,
\* run-history fetch, prompt build, agent invocation, metrics emission, then
\* (only on escalation) notification; a notification is published only
\* after the agent stream has been consumed to its end and the metrics
\* emission has returned, and at most one is published per invocation.
C18_StageOrder ==
    \A i \in Invocations :
        /\ IsPrefix(inv[i].stages, EscalatingOrder) \/ IsPrefix(inv[i].stages, QuietOrder)
        /\ Len(inv[i].publish_calls) <= 1
        /\ inv[i].metric_calls # <<>>
              => /\ inv[i].prompt # None
                 /\ inv[i].pos = Len(inv[i].completion)
                 /\ IsPrefix(<<"start", "logs", "history", "prompt", "agent">>,
                             inv[i].stages)
        /\ inv[i].publish_calls # <<>>
              => /\ NeedsEscalation(inv[i].agent_response)
                 /\ inv[i].pos = Len(inv[i].completion)
                 /\ Len(inv[i].metric_calls) = 1
                 /\ IsPrefix(<<"start", "logs", "history", "prompt", "agent", "metrics">>,
                             inv[i].stages)

\* C18 witness: an invocation that escalated has returned, all its stages
\* completed in order, with one notification published.
C18_Witness ==
    /\ inv[1].pc = "done"
    /\ inv[1].stages = EscalatingOrder
    /\ Len(inv[1].publish_calls) = 1
    /\ Len(inv[1].completion) = MaxChunks

=============================================================================
